---- MODULE Spec2Model ----
(***************************************************************************)
(* Session-brokered OAuth handoff of colino-backend: the Initiate,         *)
(* Callback and Poll Lambda handlers over the DynamoDB session table.      *)
(*                                                                         *)
(* Python values are tagged records so that None, strings and integers can *)
(* sit in the same dictionary: [t |-> "None"], [t |-> "str", v |-> "x"],   *)
(* [t |-> "int", v |-> 3], [t |-> "dict", v |-> d].  A dict is a function  *)
(* over its keys; resp is the request and response of the handler that ran *)
(* in the last step, and [op |-> "none"] after a step of the environment.  *)
(***************************************************************************)
EXTENDS Integers, Sequences, FiniteSets, TLC

VARIABLES table, now, issued, returned, calledBack, everReady, resp, cli

vars == <<table, now, issued, returned, calledBack, everReady, resp, cli>>

----------------------------------------------------------------------------
(* Bounds of the model *)

\* number of session ids uuid4 can hand out in one behaviour
MaxSessions == 2

\* the clock stops advancing once it has reached this value
MaxTime == 3601

----------------------------------------------------------------------------
(* Program constants *)

\* expires_in=3600 passed by auth_initiate for the placeholder
PlaceholderExpiresIn == 3600

\* default of save_oauth_tokens' expires_in parameter
DefaultExpiresIn == 600

\* expires_in = 3600 fallback of auth_callback when credentials.expiry is unset
CallbackDefaultExpiresIn == 3600

----------------------------------------------------------------------------
(* Python values *)

None == [t |-> "None"]

Str(s) == [t |-> "str", v |-> s]

Num(n) == [t |-> "int", v |-> n]

Dict(d) == [t |-> "dict", v |-> d]

\* Python truthiness: None, "", 0 and {} are falsy
Truthy(x) ==
    CASE x.t = "None" -> FALSE
      [] x.t = "str"  -> x.v # ""
      [] x.t = "int"  -> x.v # 0
      [] x.t = "dict" -> DOMAIN x.v # {}
      [] OTHER        -> TRUE

EmptyDict == [k \in {} |-> None]

\* d.get(k)
Get(d, k) == IF k \in DOMAIN d THEN d[k] ELSE None

\* d.get(k, default)
GetOr(d, k, default) == IF k \in DOMAIN d THEN d[k] ELSE default

\* a filter that keeps everything
DropNoneKeepsAll(d) == d

\* {k: v for k, v in d.items() if v is not None}
DropNone(d) == [k \in {x \in DOMAIN d : d[x] # None} |-> d[k]]

----------------------------------------------------------------------------
(* shared/response_utils.py *)

\* shared/config.py: GOOGLE_CLIENT_CONFIG["web"]["client_secret"] and
\* ["token_uri"]
ClientSecret == "SECRET"

TokenUrl == "https://oauth2.googleapis.com/token"

create_response(status_code, body) ==
    [statusCode |-> status_code, contentType |-> "application/json", body |-> body]

\* an error body that carries its text under "message"
create_error_response_message(status_code, message) ==
    create_response(status_code, [message |-> Str(message)])

create_error_response(status_code, message) ==
    create_response(status_code, [error |-> Str(message)])

----------------------------------------------------------------------------
(* shared/token_storage.py over the DynamoDB table.  The table is a        *)
(* function from the session ids that have an item to the item.            *)

\* an item that keeps the fields the caller gave no value for, as nulls
SaveItemWithNulls(session_id, tokens, expires_in, t) ==
    [session_id    |-> Str(session_id),
     access_token  |-> Get(tokens, "access_token"),
     refresh_token |-> Get(tokens, "refresh_token"),
     token_type    |-> GetOr(tokens, "token_type", Str("Bearer")),
     expires_in    |-> Num(expires_in),
     expires_at    |-> Get(tokens, "expires_at"),
     scope         |-> Get(tokens, "scope"),
     status        |-> GetOr(tokens, "status", Str("completed")),
     created_at    |-> Num(t),
     ttl           |-> Num(t + expires_in)]

\* an item whose status is "completed" whatever the caller gave
SaveItemAlwaysCompleted(session_id, tokens, expires_in, t) ==
    [k \in {"session_id", "token_type", "expires_in", "status", "created_at", "ttl"} |->
        CASE k = "session_id" -> Str(session_id)
          [] k = "token_type" -> Str("Bearer")
          [] k = "expires_in" -> Num(expires_in)
          [] k = "status"     -> Str("completed")
          [] k = "created_at" -> Num(t)
          [] k = "ttl"        -> Num(t + expires_in)]
        @@ [k \in {a \in {"access_token", "refresh_token"} : a \in DOMAIN tokens} |-> tokens[k]]

\* an item written without a ttl, which the table would keep for ever
SaveItemNoTtl(session_id, tokens, expires_in, t) ==
    DropNone([session_id    |-> Str(session_id),
              access_token  |-> Get(tokens, "access_token"),
              refresh_token |-> Get(tokens, "refresh_token"),
              token_type    |-> GetOr(tokens, "token_type", Str("Bearer")),
              expires_in    |-> Num(expires_in),
              expires_at    |-> Get(tokens, "expires_at"),
              scope         |-> Get(tokens, "scope"),
              status        |-> GetOr(tokens, "status", Str("completed")),
              created_at    |-> Num(t)])

\* the item save_oauth_tokens builds at time t (lines 55-72)
SaveItem(session_id, tokens, expires_in, t) ==
    DropNone([session_id    |-> Str(session_id),
              access_token  |-> Get(tokens, "access_token"),
              refresh_token |-> Get(tokens, "refresh_token"),
              token_type    |-> GetOr(tokens, "token_type", Str("Bearer")),
              expires_in    |-> Num(expires_in),
              expires_at    |-> Get(tokens, "expires_at"),
              scope         |-> Get(tokens, "scope"),
              status        |-> GetOr(tokens, "status", Str("completed")),
              created_at    |-> Num(t),
              ttl           |-> Num(t + expires_in)])

\* table.put_item(Item=item): the item replaces whatever its key held
\* a write that updates the stored item field by field, keeping the fields
\* the new item lacks
put_item_merge(tbl, item) ==
    [k \in DOMAIN tbl \cup {item.session_id.v} |->
        IF k = item.session_id.v
        THEN IF k \in DOMAIN tbl THEN item @@ tbl[k] ELSE item
        ELSE tbl[k]]

\* a write that leaves nothing but its own item in the table
put_item_alone(tbl, item) == (item.session_id.v :> item)

put_item(tbl, item) ==
    [k \in DOMAIN tbl \cup {item.session_id.v} |->
        IF k = item.session_id.v THEN item ELSE tbl[k]]

\* storeOk is FALSE when OAUTH_SESSIONS_TABLE is unset or put_item raises:
\* the exception is swallowed and False returned
save_oauth_tokens(tbl, session_id, tokens, expires_in, t, storeOk) ==
    IF storeOk
    THEN [table |-> put_item(tbl, SaveItem(session_id, tokens, expires_in, t)),
          ok    |-> TRUE]
    ELSE [table |-> tbl, ok |-> FALSE]

\* storeOk is FALSE when the table is not configured or get_item raises:
\* the exception is swallowed and None returned
get_oauth_tokens(tbl, session_id, storeOk) ==
    IF storeOk /\ session_id \in DOMAIN tbl THEN Dict(tbl[session_id]) ELSE None

\* DynamoDB's TTL sweep may discard an item once its ttl is in the past
Expired(item, t) == "ttl" \in DOMAIN item /\ item.ttl.v < t

delete_item(tbl, session_id) == [k \in DOMAIN tbl \ {session_id} |-> tbl[k]]

\* storeOk is FALSE when the table is not configured or delete_item raises:
\* the exception is swallowed and False returned
delete_oauth_tokens(tbl, session_id, storeOk) ==
    IF storeOk
    THEN [table |-> delete_item(tbl, session_id), ok |-> TRUE]
    ELSE [table |-> tbl, ok |-> FALSE]

----------------------------------------------------------------------------
(* Request headers: event.get("headers", {}) then Host / host *)

Hosts == {"api.example.com"}

HeaderSamples ==
    {None, Dict(EmptyDict)}
      \cup {Dict([Host |-> Str(h)]) : h \in Hosts}
      \cup {Dict([host |-> Str(h)]) : h \in Hosts}
      \cup {Dict([Host |-> Str(h), Accept |-> Str("application/json")]) : h \in Hosts}

\* event.get("headers", {}): the key's value, also when it is None
EventGet(event, key) == GetOr(event, key, Dict(EmptyDict))

\* headers.get("Host") or headers.get("host")
HostOf(headers) ==
    IF Truthy(Get(headers, "Host")) THEN Get(headers, "Host") ELSE Get(headers, "host")

\* f"https://{host}/Prod/callback"
RedirectUri(host) == [t |-> "url", scheme |-> "https", host |-> host, path |-> "/Prod/callback"]

----------------------------------------------------------------------------
(* lambdas/auth_initiate.py *)

UuidPool == <<"u1", "u2", "u3", "u4">>

Uuids == {UuidPool[i] : i \in 1..MaxSessions}

\* a generator that hands out its first value again
Uuid4Reused(used) == {UuidPool[1]}

\* the value uuid.uuid4() returns next: one never returned before (which one
\* does not matter, so the pool is used in order); none once the model's
\* supply is used up
uuid4(used) ==
    IF Cardinality(used) < MaxSessions THEN {UuidPool[Cardinality(used) + 1]} ELSE {}

\* flow.authorization_url(access_type="offline", include_granted_scopes="true",
\*                        prompt="consent", state=session_id)
authorization_url(redirect_uri, state) ==
    [t |-> "url", redirect_uri |-> redirect_uri, state |-> state,
     access_type |-> "offline", prompt |-> "consent"]

InitiateError(message) ==
    create_response(500, [error   |-> Str("Failed to generate authorization URL"),
                          message |-> Str(message)])

\* a placeholder that already carries a token
PlaceholderDataWithToken ==
    [status |-> Str("pending"), created_at |-> None, access_token |-> Str("AT0")]

\* the write auth_initiate makes: save_oauth_tokens(session_id,
\* {"status": "pending", "created_at": None}, expires_in=3600)
PlaceholderData == [status |-> Str("pending"), created_at |-> None]

\* a handler that writes the placeholder as soon as it has the session id,
\* before the authorization URL is built
auth_initiate_write_first(event, u, flowOk, storeOk, tbl, t) ==
    LET headers == EventGet(event, "headers") IN
    IF headers.t # "dict"
    THEN [resp |-> InitiateError("'NoneType' object has no attribute 'get'"),
          table |-> tbl, generated |-> FALSE]
    ELSE
    LET host == HostOf(headers.v) IN
    IF ~Truthy(host)
    THEN [resp |-> InitiateError("Unable to determine API Gateway host"),
          table |-> tbl, generated |-> FALSE]
    ELSE
    LET redirect_uri == RedirectUri(host.v)
        session_id   == u
        saved == save_oauth_tokens(tbl, session_id, PlaceholderData,
                                   PlaceholderExpiresIn, t, storeOk)
    IN
    IF ~flowOk
    THEN [resp |-> InitiateError("flow error"), table |-> saved.table,
          generated |-> TRUE]
    ELSE [resp |-> create_response(200,
                    [authorization_url |-> authorization_url(redirect_uri, session_id),
                     session_id        |-> Str(session_id),
                     redirect_uri      |-> redirect_uri]),
          table |-> saved.table,
          generated |-> TRUE]

\* lambda_handler of auth_initiate: u is the value uuid4 returns, flowOk is
\* FALSE when Flow.from_client_config or authorization_url raises.
\* Gives the response, the table afterwards and whether uuid4 was called.
auth_initiate_handler(event, u, flowOk, storeOk, tbl, t) ==
    LET headers == EventGet(event, "headers") IN
    IF headers.t # "dict"
    THEN [resp |-> InitiateError("'NoneType' object has no attribute 'get'"),
          table |-> tbl, generated |-> FALSE]
    ELSE
    LET host == HostOf(headers.v) IN
    IF ~Truthy(host)
    THEN [resp |-> InitiateError("Unable to determine API Gateway host"),
          table |-> tbl, generated |-> FALSE]
    ELSE
    LET redirect_uri == RedirectUri(host.v)
        session_id   == u
    IN
    IF ~flowOk
    THEN [resp |-> InitiateError("flow error"), table |-> tbl, generated |-> TRUE]
    ELSE
    LET saved == save_oauth_tokens(tbl, session_id, PlaceholderData,
                                   PlaceholderExpiresIn, t, storeOk)
    IN  [resp |-> create_response(200,
                    [authorization_url |-> authorization_url(redirect_uri, session_id),
                     session_id        |-> Str(session_id),
                     redirect_uri      |-> redirect_uri]),
         table |-> saved.table,
         generated |-> TRUE]

----------------------------------------------------------------------------
(* lambdas/auth_poll.py *)

PendingBody ==
    [status  |-> Str("pending"),
     message |-> Str("Authentication in progress. Please complete the OAuth flow in your browser.")]

\* a handler that hands the stored item back as it is
PollResponseDataUnfiltered(token_data) == token_data

\* response_data of auth_poll before the None filter (lines 54-61)
PollResponseData(token_data) ==
    [access_token  |-> Get(token_data, "access_token"),
     refresh_token |-> Get(token_data, "refresh_token"),
     token_type    |-> GetOr(token_data, "token_type", Str("Bearer")),
     expires_in    |-> Get(token_data, "expires_in"),
     expires_at    |-> Get(token_data, "expires_at"),
     scope         |-> Get(token_data, "scope")]

\* token_data.get("status") == "pending"
PendingStatusNever(token_data) == FALSE

IsPendingStatus(token_data) == Get(token_data, "status") = Str("pending")

\* lambda_handler of auth_poll
auth_poll_handler(event, tbl, storeOk) ==
    LET path_params == EventGet(event, "pathParameters") IN
    IF path_params.t # "dict"
    THEN create_error_response(500, "Internal server error: 'NoneType' object has no attribute 'get'")
    ELSE
    LET session_id == Get(path_params.v, "session_id") IN
    IF ~Truthy(session_id)
    THEN create_error_response(400, "Missing session_id parameter")
    ELSE
    LET token_data == get_oauth_tokens(tbl, session_id.v, storeOk) IN
    IF ~Truthy(token_data)
    THEN create_error_response(404, "Session not found or expired")
    ELSE
    IF IsPendingStatus(token_data.v)
    THEN create_response(202, PendingBody)
    ELSE
    LET response_data == DropNone(PollResponseData(token_data.v)) IN
    IF ~Truthy(Get(response_data, "access_token"))
    THEN create_response(202, PendingBody)
    ELSE create_response(200, response_data)

----------------------------------------------------------------------------
(* lambdas/auth_callback.py *)

\* " ".join(SCOPES)
JoinedScopes ==
    Str("https://www.googleapis.com/auth/youtube.readonly https://www.googleapis.com/auth/youtube.force-ssl")

\* authorization codes the provider knows: fetch_token raises on any other
ValidCodes == {"good"}

\* f"OAuth error: {error}" plus " - {error_description}" when given
\* a redirect URI without the stage of the deployment
CallbackRedirectUriNoStage(host) ==
    [t |-> "url", scheme |-> "https", host |-> host, path |-> "/callback"]

\* flow.redirect_uri for the token exchange: f"https://{host}/Prod/callback"
\* (auth_callback.py line 68)
CallbackRedirectUri(host) ==
    [t |-> "url", scheme |-> "https", host |-> host, path |-> "/Prod/callback"]

\* a message that leaves the provider's description out
OAuthErrorMessageNoDescription(query_params) ==
    "OAuth error: " \o query_params["error"].v

\* a message that leaves the provider's error code out
OAuthErrorMessageGeneric(query_params) == "OAuth error"

OAuthErrorMessage(query_params) ==
    IF "error_description" \in DOMAIN query_params
    THEN "OAuth error: " \o query_params["error"].v \o " - " \o query_params["error_description"].v
    ELSE "OAuth error: " \o query_params["error"].v

\* an expiry whose synthesized end is the lifetime, not the time it ends
CallbackExpiryRelative(expiry, t) ==
    IF Truthy(expiry)
    THEN [expires_in |-> Num(expiry.v - t), expires_timestamp |-> Num(expiry.v)]
    ELSE [expires_in |-> Num(CallbackDefaultExpiresIn),
          expires_timestamp |-> Num(CallbackDefaultExpiresIn)]

\* expires_in, expires_timestamp from credentials.expiry (lines 78-91);
\* expiry is None or the provider's absolute expiry in epoch seconds
CallbackExpiry(expiry, t) ==
    IF Truthy(expiry)
    THEN [expires_in |-> Num(expiry.v - t), expires_timestamp |-> Num(expiry.v)]
    ELSE [expires_in |-> Num(CallbackDefaultExpiresIn),
          expires_timestamp |-> Num(t + CallbackDefaultExpiresIn)]

\* headers.get("Accept", headers.get("accept", ""))
AcceptOf(headers) == GetOr(headers, "Accept", GetOr(headers, "accept", Str("")))

\* "application/json" in accept_header, on the header values of HeaderSamples
AcceptsJson(accept_header) == accept_header = Str("application/json")

\* lambda_handler of auth_callback: flowOk is FALSE when
\* Flow.from_client_config raises, credentials is what the provider returns
\* for a valid code.  The handler reads and writes no table.
auth_callback_handler(event, flowOk, credentials, t) ==
    LET query_params == EventGet(event, "queryStringParameters") IN
    IF ~Truthy(query_params)
    THEN create_error_response(400, "Missing query parameters")
    ELSE
    IF "error" \in DOMAIN query_params.v
    THEN create_error_response(400, OAuthErrorMessage(query_params.v))
    ELSE
    LET auth_code == Get(query_params.v, "code") IN
    IF ~Truthy(auth_code)
    THEN create_error_response(400, "Missing authorization code")
    ELSE
    IF ~flowOk
    THEN create_error_response(500, "Internal server error: flow error")
    ELSE
    LET headers == EventGet(event, "headers") IN
    IF headers.t # "dict"
    THEN create_error_response(500, "Internal server error: 'NoneType' object has no attribute 'get'")
    ELSE
    IF ~Truthy(HostOf(headers.v))
    THEN create_error_response(500, "Unable to determine API Gateway host")
    ELSE
    IF auth_code.v \notin ValidCodes
    THEN create_error_response(500, "Internal server error: invalid_grant")
    ELSE
    LET exp == CallbackExpiry(credentials.expiry, t)
        response_data ==
            [message       |-> Str("Authentication successful"),
             access_token  |-> credentials.token,
             refresh_token |-> credentials.refresh_token]
        cli_token_data ==
            [access_token  |-> credentials.token,
             refresh_token |-> credentials.refresh_token,
             expires_in    |-> exp.expires_in,
             expires_at    |-> exp.expires_timestamp,
             token_type    |-> Str("Bearer"),
             scope         |-> JoinedScopes]
    IN
    IF AcceptsJson(AcceptOf(headers.v))
    THEN create_response(200, response_data)
    ELSE [statusCode  |-> 200,
          contentType |-> "text/html",
          body        |-> [t |-> "html",
                           tokenData |-> cli_token_data,
                           refresh_token_warning |-> ~Truthy(credentials.refresh_token)]]

----------------------------------------------------------------------------
(* lambdas/auth_refresh.py *)

\* refresh_data, the form posted to TokenUrl (lines 54-59)
RefreshForm(refresh_token) ==
    [client_id     |-> Str("CLIENT_ID"),
     client_secret |-> Str(ClientSecret),
     refresh_token |-> refresh_token,
     grant_type    |-> Str("refresh_token")]

\* token_data.get("expires_in", 3600)
RefreshDefaultExpiresIn == 3600

\* json.loads and response.json(): either the parsed value or a decode error
JSONDecodeError == [ok |-> FALSE]

Parsed(value) == [ok |-> TRUE, value |-> value]

PyList == [t |-> "list"]

\* json.loads(body) on the request bodies the model sends; any other text is
\* not JSON
json_loads(text) ==
    CASE text = "[]"   -> Parsed(PyList)
      [] text = "null" -> Parsed(None)
      [] text = "5"    -> Parsed(Num(5))
      [] text = "{}"   -> Parsed(Dict(EmptyDict))
      [] text = "{\"other_field\": \"value\"}"
                       -> Parsed(Dict([other_field |-> Str("value")]))
      [] text = "{\"refresh_token\": \"\"}"
                       -> Parsed(Dict([refresh_token |-> Str("")]))
      [] text = "{\"refresh_token\": null}"
                       -> Parsed(Dict([refresh_token |-> None]))
      [] text = "{\"refresh_token\": \"RT1\"}"
                       -> Parsed(Dict([refresh_token |-> Str("RT1")]))
      [] OTHER         -> JSONDecodeError

\* type(x).__name__, as it appears in an AttributeError
PyTypeName(x) ==
    CASE x.t = "None" -> "NoneType"
      [] x.t = "int"  -> "int"
      [] x.t = "str"  -> "str"
      [] OTHER        -> x.t

NoAttributeGet(x) ==
    "Internal server error: '" \o PyTypeName(x) \o "' object has no attribute 'get'"

\* the message of a non-200 answer of the provider (lines 72-76): the body's
\* error_description, else its error, else a fixed text; the status code only
\* when the body is not JSON or not an object
ProviderErrorMessage(reply) ==
    IF reply.json.ok /\ reply.json.value.t = "dict"
    THEN GetOr(reply.json.value.v, "error_description",
               GetOr(reply.json.value.v, "error", Str("Token refresh failed"))).v
    ELSE "Token refresh failed with status " \o ToString(reply.status_code)

\* a payload that never carries a refresh token
RefreshResponseDataNoRotation(token_data, t) ==
    LET expires_in == GetOr(token_data, "expires_in", Num(RefreshDefaultExpiresIn)) IN
    [message      |-> Str("Token refreshed successfully"),
     access_token |-> token_data["access_token"],
     expires_in   |-> expires_in,
     expires_at   |-> Num(t + expires_in.v),
     token_type   |-> GetOr(token_data, "token_type", Str("Bearer")),
     scope        |-> GetOr(token_data, "scope", Str(""))]

\* a payload that hands the posted form's client secret on
RefreshResponseDataWithSecret(token_data, t) ==
    LET expires_in == GetOr(token_data, "expires_in", Num(RefreshDefaultExpiresIn)) IN
    [message       |-> Str("Token refreshed successfully"),
     access_token  |-> token_data["access_token"],
     expires_in    |-> expires_in,
     expires_at    |-> Num(t + expires_in.v),
     token_type    |-> GetOr(token_data, "token_type", Str("Bearer")),
     scope         |-> GetOr(token_data, "scope", Str("")),
     client_secret |-> RefreshForm(None).client_secret]

\* a payload whose expires_at is the lifetime, not the time it ends
RefreshResponseDataRelative(token_data, t) ==
    LET expires_in == GetOr(token_data, "expires_in", Num(RefreshDefaultExpiresIn)) IN
    [message      |-> Str("Token refreshed successfully"),
     access_token |-> token_data["access_token"],
     expires_in   |-> expires_in,
     expires_at   |-> expires_in,
     token_type   |-> GetOr(token_data, "token_type", Str("Bearer")),
     scope        |-> GetOr(token_data, "scope", Str(""))]

\* response_data of a successful refresh at time t (lines 84-101)
RefreshResponseData(token_data, t) ==
    LET expires_in == GetOr(token_data, "expires_in", Num(RefreshDefaultExpiresIn))
        response_data ==
            [message      |-> Str("Token refreshed successfully"),
             access_token |-> token_data["access_token"],
             expires_in   |-> expires_in,
             expires_at   |-> Num(t + expires_in.v),
             token_type   |-> GetOr(token_data, "token_type", Str("Bearer")),
             scope        |-> GetOr(token_data, "scope", Str(""))]
    IN
    IF "refresh_token" \in DOMAIN token_data
    THEN ("refresh_token" :> token_data["refresh_token"]) @@ response_data
    ELSE response_data

\* the handler's answer, with whether requests.post was called on the way
Answered(response, contacted) == [response |-> response, contacted |-> contacted]

\* lambda_handler(event, context) at time t.  configOk: get_oauth_config
\* returns; reply: what requests.post does, a raise or the provider's
\* status code and body
auth_refresh_handler(event, configOk, reply, t) ==
    LET body == GetOr(event, "body", Str("")) IN
    IF ~Truthy(body)
    THEN Answered(create_error_response(400, "Missing request body"), FALSE)
    ELSE
    LET parsed == json_loads(body.v) IN
    IF ~parsed.ok
    THEN Answered(create_error_response(400, "Invalid JSON in request body"), FALSE)
    ELSE
    LET request_data == parsed.value IN
    IF request_data.t # "dict"
    THEN Answered(create_error_response(500, NoAttributeGet(request_data)), FALSE)
    ELSE
    LET refresh_token == Get(request_data.v, "refresh_token") IN
    IF ~Truthy(refresh_token)
    THEN Answered(create_error_response(400, "Missing refresh_token in request body"), FALSE)
    ELSE
    IF ~configOk
    THEN Answered(create_error_response(500, "Internal server error: config error"), FALSE)
    ELSE
    IF reply.t = "raise"
    THEN Answered(create_error_response(500, "Internal server error: connection error"), TRUE)
    ELSE
    IF reply.status_code # 200
    THEN Answered(create_error_response(400, ProviderErrorMessage(reply)), TRUE)
    ELSE
    IF ~reply.json.ok
    THEN Answered(create_error_response(500, "Internal server error: Expecting value"), TRUE)
    ELSE
    LET token_data == reply.json.value IN
    IF token_data.t # "dict"
    THEN Answered(create_error_response(500, NoAttributeGet(token_data)), TRUE)
    ELSE
    IF "access_token" \notin DOMAIN token_data.v
    THEN Answered(create_error_response(500, "Internal server error: 'access_token'"), TRUE)
    ELSE Answered(create_response(200, RefreshResponseData(token_data.v, t)), TRUE)

----------------------------------------------------------------------------
(* Requests the model sends *)

\* session ids a caller may put in a request: the generated ones and one
\* that no Initiate ever generated
SessionIds == Uuids \cup {"other"}

InitiateEvents == {EmptyDict} \cup {[headers |-> h] : h \in HeaderSamples}

PollEvents ==
    {EmptyDict, [pathParameters |-> None], [pathParameters |-> Dict(EmptyDict)],
     [pathParameters |-> Dict([session_id |-> Str("")])]}
      \cup {[pathParameters |-> Dict([session_id |-> Str(s)])] : s \in SessionIds}

CallbackQueries ==
    {None,
     Dict([error |-> Str("access_denied"), code |-> Str("good")]),
     Dict([state |-> Str(UuidPool[1])])}
      \cup {Dict([code |-> Str("bad"), state |-> Str(s)]) : s \in {UuidPool[1]}}
      \cup {Dict([code |-> Str("good"), state |-> Str(s)]) : s \in SessionIds}
      \cup {Dict([code |-> Str("good")])}

CallbackHeaders ==
    {Dict(EmptyDict)}
      \cup {Dict([Host |-> Str(h)]) : h \in Hosts}
      \cup {Dict([Host |-> Str(h), Accept |-> Str("application/json")]) : h \in Hosts}

CallbackEvents ==
    [queryStringParameters : CallbackQueries, headers : CallbackHeaders]

\* the requests that exercise the handler's checks of the query: no
\* queryStringParameters key, null, empty, the provider's error with and without
\* description and code, and a query without a usable code
CallbackProbeQueries ==
    {None, Dict(EmptyDict),
     Dict([error |-> Str("access_denied")]),
     Dict([error |-> Str("access_denied"), state |-> Str(UuidPool[1])]),
     Dict([error |-> Str("access_denied"), code |-> Str("good")]),
     Dict([error |-> Str("invalid_scope"), error_description |-> Str("scope not allowed")]),
     Dict([error |-> Str("invalid_scope"), error_description |-> Str("scope not allowed"),
           code |-> Str("good")]),
     Dict([state |-> Str(UuidPool[1])]),
     Dict([code |-> Str(""), state |-> Str(UuidPool[1])]),
     Dict([code |-> Str("bad"), state |-> Str(UuidPool[1])]),
     Dict([code |-> Str("good"), state |-> Str(UuidPool[1])]),
     Dict([code |-> Str("good")])}

CallbackProbeEvents ==
    [queryStringParameters : CallbackProbeQueries, headers : CallbackHeaders]
      \cup [headers : CallbackHeaders]

\* flow.credentials after a successful exchange at time t: what the provider
\* returned, with the client secret and token endpoint of the client
\* configuration the Flow was built from
CredentialSamples(t) ==
    [token : {Str("AT1")}, refresh_token : {None, Str("RT1")},
     expiry : {None, Num(t + 3599)},
     client_secret : {Str(ClientSecret)}, token_uri : {Str(TokenUrl)}]

\* Refresh requests: no body key, a null or empty body, text that is not
\* JSON, JSON that is not an object, objects without a usable refresh_token,
\* and a well-formed request
RefreshBodies ==
    {None, Str(""), Str("invalid json"), Str("[]"), Str("null"), Str("5"), Str("{}"),
     Str("{\"other_field\": \"value\"}"), Str("{\"refresh_token\": \"\"}"),
     Str("{\"refresh_token\": null}"), Str("{\"refresh_token\": \"RT1\"}")}

RefreshEvents == {EmptyDict} \cup {[body |-> b] : b \in RefreshBodies}

\* bodies the provider sends with a status other than 200
ProviderErrorBodies ==
    {JSONDecodeError, Parsed(PyList), Parsed(Dict(EmptyDict)),
     Parsed(Dict([error |-> Str("invalid_grant")])),
     Parsed(Dict([error |-> Str("invalid_grant"),
                  error_description |-> Str("Token has been expired or revoked.")]))}

\* bodies the provider sends with status 200
ProviderTokenBodies ==
    {JSONDecodeError, Parsed(Dict(EmptyDict)),
     Parsed(Dict([access_token |-> Str("AT2")])),
     Parsed(Dict([access_token |-> Str("AT2"), expires_in |-> Num(3599),
                  token_type |-> Str("Bearer"), scope |-> JoinedScopes])),
     Parsed(Dict([access_token |-> Str("AT2"), expires_in |-> Num(3599),
                  refresh_token |-> Str("RT2")])),
     Parsed(Dict([access_token |-> Str("AT2"), expires_in |-> Num(3599),
                  refresh_token |-> Str("RT1")]))}

\* what requests.post may do
ProviderReplies ==
    {[t |-> "raise"]}
      \cup [t : {"http"}, status_code : {400, 401}, json : ProviderErrorBodies]
      \cup [t : {"http"}, status_code : {200}, json : ProviderTokenBodies]

NoReply == [t |-> "none"]

\* no credentials: the token exchange did not succeed
NoCredentials == [t |-> "none"]

\* the state parameter of a callback request, when it carries one
StateOf(event) ==
    LET q == Get(event, "queryStringParameters") IN
    IF q.t = "dict" /\ "state" \in DOMAIN q.v THEN {q.v["state"].v} ELSE {}

NoResp == [op |-> "none"]

\* the ids whose item Poll would answer with 200
IsReady(item) ==
    /\ Get(item, "status") # Str("pending")
    /\ Truthy(Get(item, "access_token"))

ReadyIds(tbl) == {s \in DOMAIN tbl : IsReady(tbl[s])}

----------------------------------------------------------------------------
(* Actions *)

\* the client process before it has been started
CliIdle == [pc |-> "idle", session |-> None, result |-> "none"]

\* what one invocation of auth_initiate does to the service
InitiateStep(event, u, flowOk, storeOk) ==
        LET r == auth_initiate_handler(event, u, flowOk, storeOk, table, now) IN
        /\ table' = r.table
        /\ issued' = IF r.generated THEN issued \cup {u} ELSE issued
        /\ returned' = IF r.resp.statusCode = 200 THEN (u :> now) @@ returned ELSE returned
        /\ everReady' = everReady \cup ReadyIds(r.table)
        /\ resp' = [op |-> "initiate", event |-> event, storeOk |-> storeOk,
                    response |-> r.resp]
        /\ UNCHANGED <<now, calledBack>>

Initiate ==
    \E event \in InitiateEvents, flowOk \in BOOLEAN, storeOk \in BOOLEAN :
    \E u \in uuid4(issued) :
        /\ InitiateStep(event, u, flowOk, storeOk)
        /\ UNCHANGED cli

\* the requests the client's HTTP GET of the initiate URL arrives as
CliInitiateEvents == {[headers |-> Dict([Host |-> Str(h)])] : h \in Hosts}

\* cli.py `auth` and YouTubeOAuth.authenticate up to input(): GET the
\* initiate URL; a status other than 200 or a body without authorization_url
\* ends the run with a failure, otherwise the browser is opened and the
\* process waits for Enter
CliStart ==
    /\ cli.pc # "waiting"
    /\ \E event \in CliInitiateEvents, flowOk \in BOOLEAN, storeOk \in BOOLEAN :
       \E u \in uuid4(issued) :
        LET response == auth_initiate_handler(event, u, flowOk, storeOk, table, now).resp IN
        /\ InitiateStep(event, u, flowOk, storeOk)
        /\ cli' = IF response.statusCode = 200
                     /\ Truthy(Get(response.body, "authorization_url"))
                  THEN [pc |-> "waiting", session |-> response.body.session_id,
                        result |-> "none"]
                  ELSE [pc |-> "done", session |-> None, result |-> "failure"]

\* input() returns: the process prints "Authentication flow completed!" and
\* ends with success, without a request to the service
CliEnter ==
    /\ cli.pc = "waiting"
    /\ cli' = [cli EXCEPT !.pc = "done", !.result = "success"]
    /\ resp' = NoResp
    /\ UNCHANGED <<table, now, issued, returned, calledBack, everReady>>

\* what auth_callback may answer to the event at time t, over the outcomes
\* of its collaborators
CallbackOutcomes(event, t) ==
    {LET response == auth_callback_handler(event, flowOk, credentials, t) IN
     [response    |-> response,
      credentials |-> IF response.statusCode = 200 THEN credentials ELSE NoCredentials] :
        flowOk \in BOOLEAN, credentials \in CredentialSamples(t)}

CallbackResponses(event, t) == {outcome.response : outcome \in CallbackOutcomes(event, t)}

\* a Callback that, when it does not answer 200, discards the record of the
\* session named by state
CallbackDiscarding(events) ==
    \E event \in events :
    \E outcome \in CallbackOutcomes(event, now) :
        /\ resp' = [op |-> "callback", event |-> event,
                    credentials |-> outcome.credentials, response |-> outcome.response]
        /\ calledBack' = calledBack \cup (StateOf(event) \cap Uuids)
        /\ table' = IF outcome.response.statusCode = 200
                    THEN table
                    ELSE [k \in DOMAIN table \ StateOf(event) |-> table[k]]
        /\ UNCHANGED <<now, issued, returned, everReady, cli>>

\* a Callback that stores the tokens it obtained under the state of the
\* request
CallbackStoring(events) ==
    \E event \in events :
    \E outcome \in CallbackOutcomes(event, now) :
        /\ resp' = [op |-> "callback", event |-> event,
                    credentials |-> outcome.credentials, response |-> outcome.response]
        /\ calledBack' = calledBack \cup (StateOf(event) \cap Uuids)
        /\ table' = IF outcome.response.statusCode = 200 /\ StateOf(event) # {}
                    THEN put_item(table,
                             SaveItem(CHOOSE s \in StateOf(event) : TRUE,
                                      [access_token  |-> outcome.credentials.token,
                                       refresh_token |-> outcome.credentials.refresh_token],
                                      DefaultExpiresIn, now))
                    ELSE table
        /\ everReady' = everReady \cup ReadyIds(table')
        /\ UNCHANGED <<now, issued, returned, cli>>

CallbackWith(events) ==
    \E event \in events :
    \E outcome \in CallbackOutcomes(event, now) :
        /\ resp' = [op |-> "callback", event |-> event,
                    credentials |-> outcome.credentials, response |-> outcome.response]
        /\ calledBack' = calledBack \cup (StateOf(event) \cap Uuids)
        /\ UNCHANGED <<table, now, issued, returned, everReady, cli>>

Callback == CallbackWith(CallbackEvents)

CallbackProbe == CallbackWith(CallbackProbeEvents)

\* a Poll that hands the tokens out once: it deletes the item it answered
\* 200 for
PollConsuming ==
    \E event \in PollEvents, storeOk \in BOOLEAN :
        LET response == auth_poll_handler(event, table, storeOk) IN
        /\ resp' = [op |-> "poll", event |-> event, storeOk |-> storeOk,
                    response |-> response]
        /\ table' = IF response.statusCode = 200
                    THEN delete_item(table, event.pathParameters.v.session_id.v)
                    ELSE table
        /\ UNCHANGED <<now, issued, returned, calledBack, everReady, cli>>

Poll ==
    \E event \in PollEvents, storeOk \in BOOLEAN :
        /\ resp' = [op |-> "poll", event |-> event, storeOk |-> storeOk,
                    response |-> auth_poll_handler(event, table, storeOk)]
        /\ UNCHANGED <<table, now, issued, returned, calledBack, everReady, cli>>

\* the answers auth_refresh may give to the event at time t, each with the
\* provider's reply it was made from (NoReply when the provider was not
\* contacted)
RefreshOutcomes(event, t) ==
    {LET a == auth_refresh_handler(event, configOk, reply, t) IN
     [response |-> a.response, reply |-> IF a.contacted THEN reply ELSE NoReply] :
        configOk \in BOOLEAN, reply \in ProviderReplies}

\* a Refresh that keeps the tokens it got in the store
RefreshStoring ==
    \E event \in RefreshEvents :
    \E outcome \in RefreshOutcomes(event, now) :
        /\ resp' = [op |-> "refresh", event |-> event, reply |-> outcome.reply,
                    response |-> outcome.response]
        /\ table' = IF outcome.response.statusCode = 200
                    THEN put_item(table, SaveItem("refresh", outcome.response.body,
                                                  DefaultExpiresIn, now))
                    ELSE table
        /\ UNCHANGED <<now, issued, returned, calledBack, everReady, cli>>

Refresh ==
    \E event \in RefreshEvents :
    \E outcome \in RefreshOutcomes(event, now) :
        /\ resp' = [op |-> "refresh", event |-> event, reply |-> outcome.reply,
                    response |-> outcome.response]
        /\ UNCHANGED <<table, now, issued, returned, calledBack, everReady, cli>>

\* the clock advances
Tick ==
    \E d \in {PlaceholderExpiresIn, PlaceholderExpiresIn + 1} :
        /\ now + d <= MaxTime
        /\ now' = now + d
        /\ resp' = NoResp
        /\ UNCHANGED <<table, issued, returned, calledBack, everReady, cli>>

\* DynamoDB discards an item whose ttl has passed, at a time of its choosing
StoreExpire ==
    \E s \in DOMAIN table :
        /\ Expired(table[s], now)
        /\ table' = delete_item(table, s)
        /\ resp' = [op |-> "expire", session_id |-> s]
        /\ UNCHANGED <<now, issued, returned, calledBack, everReady, cli>>

Init ==
    /\ table = EmptyDict
    /\ now = 0
    /\ issued = {}
    /\ returned = EmptyDict
    /\ calledBack = {}
    /\ everReady = {}
    /\ resp = NoResp
    /\ cli = CliIdle

Next == Initiate \/ Callback \/ Poll \/ Tick \/ StoreExpire

Spec == Init /\ [][Next]_vars

----------------------------------------------------------------------------
(* Poll as a function of what the table holds: the table starts with one   *)
(* item of any shape under a session id, as the tests of auth_poll give it *)

Absent == [t |-> "absent"]

DropAbsent(d) == [k \in {x \in DOMAIN d : d[x] # Absent} |-> d[k]]

StoredItems(session_id) ==
    {DropAbsent([session_id    |-> Str(session_id),
                 status        |-> st,
                 access_token  |-> at,
                 refresh_token |-> rt,
                 expires_at    |-> ea,
                 client_secret |-> cs,
                 token_type    |-> Str("Bearer"),
                 expires_in    |-> Num(DefaultExpiresIn),
                 created_at    |-> Num(0),
                 ttl           |-> Num(DefaultExpiresIn)]) :
        st \in {Absent, Str("pending"), Str("completed")},
        at \in {Absent, Str(""), Str("AT0")},
        rt \in {Absent, None, Str("RT0")},
        ea \in {Absent, Num(CallbackDefaultExpiresIn)},
        cs \in {Absent, Str(ClientSecret)}}

InitWith(items) ==
    /\ \E item \in items : table = (UuidPool[1] :> item)
    /\ now = 0
    /\ issued = {UuidPool[1]}
    /\ returned = (UuidPool[1] :> 0)
    /\ calledBack = {}
    /\ everReady = ReadyIds(table)
    /\ resp = NoResp
    /\ cli = CliIdle

InitPoll == InitWith(StoredItems(UuidPool[1]))

NextPoll == Poll \/ Tick \/ StoreExpire

SpecPoll == InitPoll /\ [][NextPoll]_vars

----------------------------------------------------------------------------
(* The handlers over a table that already holds a completed session, as    *)
(* save_oauth_tokens writes it for token data with an access token          *)

CompletedItems(session_id) ==
    {SaveItem(session_id, tokens, DefaultExpiresIn, 0) :
        tokens \in {[access_token |-> Str("AT0")],
                    [access_token |-> Str("AT0"), refresh_token |-> Str("RT0")]}}

InitReady == InitWith(CompletedItems(UuidPool[1]))

SpecReady == InitReady /\ [][Next]_vars

----------------------------------------------------------------------------
(* The Callback handler alone, over the requests that exercise its checks  *)

NextCallback == CallbackProbe \/ Tick

SpecCallback == Init /\ [][NextCallback]_vars

----------------------------------------------------------------------------
(* Refresh next to the handler that fills the session store *)

NextRefresh == Initiate \/ Refresh \/ Tick

SpecRefresh == Init /\ [][NextRefresh]_vars

----------------------------------------------------------------------------
(* The four entry points over all their requests *)

NextApi == Initiate \/ CallbackProbe \/ Poll \/ Refresh

SpecApi == Init /\ [][NextApi]_vars

----------------------------------------------------------------------------
(* Sessions no Callback ever arrives for.  DynamoDB's TTL process deletes  *)
(* every item whose ttl has passed, at a time of its choosing but without  *)
(* leaving it for ever: StoreExpire is weakly fair.                        *)

NextExpiry == Initiate \/ Poll \/ Tick \/ StoreExpire

SpecExpiry == Init /\ [][NextExpiry]_vars /\ WF_vars(StoreExpire)

----------------------------------------------------------------------------
(* The command-line client next to Poll and the store's expiry *)

NextCli == CliStart \/ CliEnter \/ Poll \/ Tick \/ StoreExpire

SpecCli == Init /\ [][NextCli]_vars

----------------------------------------------------------------------------
(* Callback, Poll and Refresh over a store whose item may hold a secret *)

NextSecrets == CallbackProbe \/ Poll \/ Refresh

SpecSecrets == InitPoll /\ [][NextSecrets]_vars

----------------------------------------------------------------------------
(* shared/token_storage.py called directly, from any number of concurrent  *)
(* invocations: each call is one request to the table, so the calls        *)
(* interleave as whole steps                                               *)

\* session ids the callers write and read under
StoreIds == {UuidPool[1], "other"}

\* save_oauth_tokens' arguments (tokens, expires_in): Initiate's placeholder
\* with its window, and token data of a finished exchange with the default
\* window (the provider's token lifetime being 3599 s): with and without
\* refresh token, and with a null refresh token
WriteSamples ==
    {[tokens |-> PlaceholderData, expires_in |-> PlaceholderExpiresIn],
     [tokens |-> [access_token |-> Str("AT1"), refresh_token |-> Str("RT1"),
                  expires_in |-> Num(3599), scope |-> JoinedScopes],
      expires_in |-> DefaultExpiresIn],
     [tokens |-> [access_token |-> Str("AT2"), expires_in |-> Num(3599)],
      expires_in |-> DefaultExpiresIn],
     [tokens |-> [access_token |-> Str("AT2"), refresh_token |-> None],
      expires_in |-> DefaultExpiresIn]}

\* the fields of the item a write replaces
Replaced(tbl, session_id) ==
    IF session_id \in DOMAIN tbl THEN DOMAIN tbl[session_id] ELSE {}

Save ==
    \E session_id \in StoreIds, write \in WriteSamples, storeOk \in BOOLEAN :
        LET saved == save_oauth_tokens(table, session_id, write.tokens,
                                       write.expires_in, now, storeOk)
        IN
        /\ table' = saved.table
        /\ everReady' = everReady \cup ReadyIds(saved.table)
        /\ resp' = [op |-> "save", session_id |-> session_id, write |-> write,
                    replaced |-> Replaced(table, session_id), ok |-> saved.ok]
        /\ UNCHANGED <<now, issued, returned, calledBack, cli>>

Delete ==
    \E session_id \in StoreIds, storeOk \in BOOLEAN :
        LET deleted == delete_oauth_tokens(table, session_id, storeOk) IN
        /\ table' = deleted.table
        /\ resp' = [op |-> "delete", session_id |-> session_id, ok |-> deleted.ok]
        /\ UNCHANGED <<now, issued, returned, calledBack, everReady, cli>>

NextStore == Save \/ Delete \/ Poll \/ Tick \/ StoreExpire

SpecStore == Init /\ [][NextStore]_vars

----------------------------------------------------------------------------
(* Properties *)

PollEvent(s) == [pathParameters |-> Dict([session_id |-> Str(s)])]

\* what Poll answers for s in the current state when the table can be read
PollNow(s) == auth_poll_handler(PollEvent(s), table, TRUE)

NotFound == create_error_response(404, "Session not found or expired")

\* the last step was a Poll carrying session id s
PolledFor(s) == resp.op = "poll" /\ resp.event = PollEvent(s)

InitiateOk == resp.op = "initiate" /\ resp.response.statusCode = 200

CallbackOk == resp.op = "callback" /\ resp.response.statusCode = 200

\* the access token a successful Callback response carries
TokenIn(response) ==
    IF response.contentType = "text/html"
    THEN response.body.tokenData.access_token
    ELSE response.body.access_token

AllowList ==
    {"access_token", "refresh_token", "token_type", "expires_in", "expires_at", "scope"}

\* C1: a Callback for a session id S that Initiate issued and whose
\* placeholder is in the table, answering 200, leaves a READY record with the
\* exchanged access token under S in place of the placeholder, so that
\* Poll(S) answers 200 with that access_token.
C1_CallbackStoresReady ==
    CallbackOk =>
        \A s \in StateOf(resp.event) \cap DOMAIN returned \cap DOMAIN table :
            /\ IsReady(table[s])
            /\ table[s].access_token = TokenIn(resp.response)
            /\ PollNow(s).statusCode = 200
            /\ PollNow(s).body.access_token = TokenIn(resp.response)

\* C2: a Poll(S) for a session id S that Initiate returned with 200, made
\* before any Callback for S and before the placeholder's TTL has elapsed
\* (and whose read of the table went through), answers 202 with status
\* "pending".
C2_PollPendingAfterInitiate ==
    \A s \in DOMAIN returned :
        (/\ PolledFor(s) /\ resp.storeOk
         /\ s \notin calledBack
         /\ now <= returned[s] + PlaceholderExpiresIn)
        => /\ resp.response.statusCode = 202
           /\ resp.response.body.status = Str("pending")

\* C3: a Poll with a session id whose read of the table went through answers
\* 404 "Session not found or expired" when the table has no item for the id,
\* 202 pending when the item's status is pending or it has no non-empty
\* access_token, and otherwise 200 with the item's access token.
C3_PollTriState ==
    \A s \in SessionIds :
        (PolledFor(s) /\ resp.storeOk) =>
            IF s \notin DOMAIN table
            THEN resp.response = NotFound
            ELSE IF \/ Get(table[s], "status") = Str("pending")
                    \/ ~Truthy(Get(table[s], "access_token"))
            THEN /\ resp.response.statusCode = 202
                 /\ resp.response.body.status = Str("pending")
            ELSE /\ resp.response.statusCode = 200
                 /\ resp.response.body.access_token = table[s].access_token

\* C3 witness: a Poll whose read went through answered 202 for an item whose
\* status is pending although it holds an access token
C3_Witness ==
    /\ PolledFor(UuidPool[1]) /\ resp.storeOk
    /\ UuidPool[1] \in DOMAIN table
    /\ Get(table[UuidPool[1]], "status") = Str("pending")
    /\ Truthy(Get(table[UuidPool[1]], "access_token"))
    /\ resp.response.statusCode = 202

\* C4: once a READY item has existed under a session id, no later Poll of
\* that id answers 202.
C4_NoRegression ==
    \A s \in everReady : PolledFor(s) => resp.response.statusCode # 202

\* C4 witness: a Poll of the completed session answered 200 after a later
\* Initiate wrote its placeholder into the table
C4_Witness ==
    /\ \E s \in everReady : PolledFor(s) /\ resp.response.statusCode = 200
    /\ Cardinality(DOMAIN table) > 1

\* C5: a Poll of a session whose item's ttl is earlier than the current time
\* answers 404, as for a session that never existed, also while the item is
\* still in the table.
C5_ExpiredIsNotFound ==
    \A s \in DOMAIN table :
        (PolledFor(s) /\ table[s].ttl.v < now) => resp.response = NotFound

\* C6: every 200 response of Initiate implies that a pending item exists
\* under the session id it returns.
C6_InitiateOkHasPlaceholder ==
    InitiateOk =>
        LET s == resp.response.body.session_id.v IN
        /\ s \in DOMAIN table
        /\ Get(table[s], "status") = Str("pending")

\* C7: Callback answers 200 only if Poll, under the session id the callback
\* carried, gives back the exchanged tokens.
C7_CallbackOkRetrievable ==
    CallbackOk =>
        /\ StateOf(resp.event) # {}
        /\ \A s \in StateOf(resp.event) :
              /\ PollNow(s).statusCode = 200
              /\ PollNow(s).body.access_token = TokenIn(resp.response)

\* C8: the keys of a 200 Poll response are among access_token, refresh_token,
\* token_type, expires_in, expires_at and scope, whatever the item holds.
C8_PollAllowList ==
    (resp.op = "poll" /\ resp.response.statusCode = 200)
        => DOMAIN resp.response.body \subseteq AllowList

\* C8 witness: a 200 Poll of an item that holds a client_secret
C8_Witness ==
    \E s \in DOMAIN table :
        /\ PolledFor(s) /\ resp.response.statusCode = 200
        /\ "client_secret" \in DOMAIN table[s]

\* C9: no key of a 200 Poll response has the value None, and an item without
\* a refresh_token gives a payload without the refresh_token key.
C9_PollOmitsMissing ==
    (resp.op = "poll" /\ resp.response.statusCode = 200) =>
        /\ \A k \in DOMAIN resp.response.body : resp.response.body[k] # None
        /\ \A s \in DOMAIN table :
              (PolledFor(s) /\ Get(table[s], "refresh_token") = None)
                  => "refresh_token" \notin DOMAIN resp.response.body

\* C9 witness: a 200 Poll of an item that has no refresh_token
C9_Witness ==
    \E s \in DOMAIN table :
        /\ PolledFor(s) /\ resp.response.statusCode = 200
        /\ "refresh_token" \notin DOMAIN table[s]

\* C10: a successful Initiate returns a session id no earlier Initiate
\* returned and leaves a placeholder item of its own under it, and a Poll
\* changes the answer of no later Poll of any session.
C10_SessionsIndependent ==
    [][/\ (resp'.op = "initiate" /\ resp'.response.statusCode = 200) =>
            LET s == resp'.response.body.session_id.v IN
            /\ s \notin DOMAIN returned
            /\ s \in DOMAIN table'
            /\ s \notin DOMAIN table
            /\ \A o \in DOMAIN table : table'[o] = table[o]
       /\ resp'.op = "poll" =>
            \A s \in SessionIds :
                auth_poll_handler(PollEvent(s), table', TRUE) = PollNow(s)]_vars

\* C11: a Poll, whatever it answers (200, 202, 400, 404, 500), leaves the
\* session store as it was, so any Poll gets the same answer after it as before
\* it.
C11_PollReadOnly ==
    [][resp'.op = "poll" =>
          /\ table' = table
          /\ \A event \in PollEvents, storeOk \in BOOLEAN :
                auth_poll_handler(event, table', storeOk)
                    = auth_poll_handler(event, table, storeOk)]_vars

\* a Poll has answered 200 and the item it read is still stored
C11_Witness ==
    /\ resp.op = "poll"
    /\ resp.response.statusCode = 200
    /\ resp.event.pathParameters.v.session_id.v \in DOMAIN table

\* sub occurs in s
Contains(s, sub) ==
    \E i \in 1..(Len(s) - Len(sub) + 1) : SubSeq(s, i, i + Len(sub) - 1) = sub

\* the query of the Callback request that was answered last
CallbackQuery == EventGet(resp.event, "queryStringParameters")

NoQuery(q) == q.t # "dict" \/ DOMAIN q.v = {}

HasError(q) == ~NoQuery(q) /\ "error" \in DOMAIN q.v

NoCode(q) == NoQuery(q) \/ "code" \notin DOMAIN q.v \/ q.v["code"] \in {None, Str("")}

MissingQuery == create_error_response(400, "Missing query parameters")

MissingCode == create_error_response(400, "Missing authorization code")

\* C12: Callback applies its checks in a fixed order, each answering 400:
\* no query parameters at all gives "Missing query parameters"; otherwise an
\* error parameter gives a message with the provider's error and, if given,
\* its description, even with a code present; otherwise a missing code gives
\* "Missing authorization code"; only a request that passes all three goes on
\* to the token exchange and is answered by it (never with a 400).
C12_CallbackCheckOrder ==
    resp.op = "callback" =>
        LET q == CallbackQuery
            response == resp.response
        IN
        IF NoQuery(q) THEN response = MissingQuery
        ELSE IF HasError(q)
        THEN /\ response.statusCode = 400
             /\ Contains(response.body.error.v, q.v["error"].v)
             /\ "error_description" \in DOMAIN q.v
                  => Contains(response.body.error.v, q.v["error_description"].v)
        ELSE IF NoCode(q) THEN response = MissingCode
        ELSE response.statusCode # 400

\* the provider's error came with a description and with a code, and was
\* answered
C12_Witness ==
    /\ resp.op = "callback"
    /\ HasError(CallbackQuery)
    /\ {"error_description", "code"} \subseteq DOMAIN CallbackQuery.v
    /\ resp.response.statusCode = 400

\* C13 as stated: error=access_denied is answered 400 with a message that
\* contains "access_denied", and a Callback with neither code nor error, an
\* empty or absent parameter set included, is answered 400 "Missing
\* authorization code".
C13_MissingCodeAlways ==
    resp.op = "callback" =>
        LET q == CallbackQuery IN
        /\ (HasError(q) /\ q.v["error"] = Str("access_denied"))
              => /\ resp.response.statusCode = 400
                 /\ Contains(resp.response.body.error.v, "access_denied")
        /\ (~HasError(q) /\ NoCode(q)) => resp.response = MissingCode

\* C13 amended: error=access_denied is answered 400 with a message that
\* contains "access_denied"; a Callback with neither code nor error is
\* answered 400 "Missing authorization code" when it carries some query
\* parameter, and 400 "Missing query parameters" when its parameter set is
\* empty or absent.
C13_MissingCodeOrQuery ==
    resp.op = "callback" =>
        LET q == CallbackQuery IN
        /\ (HasError(q) /\ q.v["error"] = Str("access_denied"))
              => /\ resp.response.statusCode = 400
                 /\ Contains(resp.response.body.error.v, "access_denied")
        /\ (~HasError(q) /\ NoCode(q))
              => resp.response = IF NoQuery(q) THEN MissingQuery ELSE MissingCode

\* access_denied was answered
C13_Witness ==
    /\ resp.op = "callback"
    /\ HasError(CallbackQuery)
    /\ CallbackQuery.v["error"] = Str("access_denied")
    /\ resp.response.statusCode = 400

\* the Poll request that was answered last carries no usable session id: its
\* path parameters are absent, null or empty, or their session_id is empty
PollWithoutId ==
    LET path_params == Get(resp.event, "pathParameters") IN
    \/ path_params.t # "dict"
    \/ ~Truthy(Get(path_params.v, "session_id"))

\* C14: a Poll without a session id (path parameters absent or null, empty,
\* or lacking a non-empty session_id) is answered 400 "Missing session_id
\* parameter", whatever state the session store is in.
C14_PollWithoutIdIs400 ==
    (resp.op = "poll" /\ PollWithoutId)
        => resp.response = create_error_response(400, "Missing session_id parameter")

\* C15: when the read of the session store raises, a Poll that carries a
\* session id is answered with a 5xx status, not with 404.
C15_StoreFaultIs5xx ==
    (resp.op = "poll" /\ ~PollWithoutId /\ ~resp.storeOk)
        => resp.response.statusCode >= 500

EntryPoints == {"initiate", "callback", "poll", "refresh"}

\* C16: every entry point (Initiate, Callback, Poll, Refresh) answers every
\* event and every failure of a collaborator with a response that has a status
\* code, and whose body, when the status is 4xx or 5xx, is JSON with an
\* `error` field.
C16_ErrorsAreStructured ==
    resp.op \in EntryPoints =>
        /\ "statusCode" \in DOMAIN resp.response
        /\ resp.response.statusCode \in 100..599
        /\ resp.response.statusCode >= 400 =>
              /\ resp.response.contentType = "application/json"
              /\ "error" \in DOMAIN resp.response.body
              /\ resp.response.body.error.t = "str"

\* Initiate, the one handler that builds its error body itself, has answered
\* a failure of its collaborators
C16_Witness ==
    /\ resp.op = "initiate"
    /\ resp.response.statusCode = 500

\* the Refresh request answered last has no usable body: absent or empty, not
\* JSON, JSON that is not an object, or an object without a non-empty
\* refresh_token
BadRefreshRequest ==
    LET body == GetOr(resp.event, "body", Str("")) IN
    \/ ~Truthy(body)
    \/ ~json_loads(body.v).ok
    \/ json_loads(body.v).value.t # "dict"
    \/ ~Truthy(Get(json_loads(body.v).value.v, "refresh_token"))

\* C17: a Refresh whose body is absent or empty, is not valid JSON, is valid
\* JSON but not an object, or is an object without a non-empty refresh_token
\* is answered 400, never 500, and the provider is not contacted.
C17_BadRequestIs400 ==
    (resp.op = "refresh" /\ BadRefreshRequest)
        => /\ resp.response.statusCode = 400
           /\ resp.reply = NoReply

\* the provider answered the Refresh request with a status other than 200
ProviderRefused ==
    /\ resp.op = "refresh"
    /\ resp.reply.t = "http"
    /\ resp.reply.status_code # 200

\* C18: when the provider answers a Refresh with a status other than 200, the
\* answer is 400, never 500, and its message is the provider's
\* error_description when present, otherwise its error code, otherwise a
\* generic message that includes the provider's status code.
C18_ProviderErrorMessage ==
    ProviderRefused =>
        LET json == resp.reply.json
            error_data == IF json.ok /\ json.value.t = "dict" THEN json.value.v ELSE EmptyDict
            message == resp.response.body.error.v
        IN
        /\ resp.response.statusCode = 400
        /\ IF "error_description" \in DOMAIN error_data
           THEN message = error_data["error_description"].v
           ELSE IF "error" \in DOMAIN error_data
           THEN message = error_data["error"].v
           ELSE Contains(message, ToString(resp.reply.status_code))

\* the refresh token of the Refresh request answered last
RequestRefreshToken == json_loads(resp.event.body.v).value.v["refresh_token"]

\* C19: the payload of a 200 Refresh has a refresh_token key exactly when the
\* provider's response had one, with the provider's value; the request's
\* refresh token appears in the payload only where the provider sent it.
C19_RefreshTokenRotation ==
    (resp.op = "refresh" /\ resp.response.statusCode = 200) =>
        LET token_data == resp.reply.json.value.v
            payload == resp.response.body
        IN
        /\ "refresh_token" \in DOMAIN payload <=> "refresh_token" \in DOMAIN token_data
        /\ "refresh_token" \in DOMAIN payload
              => payload["refresh_token"] = token_data["refresh_token"]
        /\ \A k \in DOMAIN payload :
              payload[k] = RequestRefreshToken
                  => k \in DOMAIN token_data /\ token_data[k] = payload[k]

\* the provider rotated the refresh token and the payload carries the new one
C19_Witness ==
    /\ resp.op = "refresh"
    /\ resp.response.statusCode = 200
    /\ "refresh_token" \in DOMAIN resp.response.body
    /\ resp.response.body["refresh_token"] # RequestRefreshToken

\* C20: Refresh is stateless: every Refresh leaves the session store
\* unchanged, and its answer is one the request, the clock and the provider
\* determine, whatever the store holds.
C20_RefreshStateless ==
    [][resp'.op = "refresh" =>
          /\ table' = table
          /\ \E configOk \in BOOLEAN,
                reply \in IF resp'.reply = NoReply THEN ProviderReplies ELSE {resp'.reply} :
                resp'.response
                    = auth_refresh_handler(resp'.event, configOk, reply, now).response]_vars

\* a Refresh has succeeded while the store held a session
C20_Witness ==
    /\ resp.op = "refresh"
    /\ resp.response.statusCode = 200
    /\ DOMAIN table # {}

\* C21: on a successful Refresh the payload's expires_in is the provider's
\* expires_in, 3600 when the provider gives none, and expires_at is the time
\* of the invocation plus that expires_in, in whole epoch seconds.
C21_RefreshExpiry ==
    (resp.op = "refresh" /\ resp.response.statusCode = 200) =>
        LET token_data == resp.reply.json.value.v
            payload == resp.response.body
        IN
        /\ payload.expires_in =
              IF "expires_in" \in DOMAIN token_data THEN token_data["expires_in"] ELSE Num(3600)
        /\ payload.expires_at = Num(now + payload.expires_in.v)

\* a Refresh succeeded at a time other than 0 with a provider that gave no
\* expires_in
C21_Witness ==
    /\ resp.op = "refresh"
    /\ resp.response.statusCode = 200
    /\ "expires_in" \notin DOMAIN resp.reply.json.value.v
    /\ now > 0

\* the successful Callback answered last gave the HTML page
CallbackHtmlOk ==
    /\ resp.op = "callback"
    /\ resp.response.statusCode = 200
    /\ resp.response.contentType = "text/html"

\* C22: the expiry Callback computes: when the provider gives an absolute
\* expiry, expires_at is that value and expires_in is that value minus the
\* current time; when it gives none, expires_in is 3600 and expires_at is the
\* time of the invocation plus 3600.
C22_CallbackExpiry ==
    CallbackHtmlOk =>
        LET expiry == resp.credentials.expiry
            tokenData == resp.response.body.tokenData
        IN
        IF expiry # None
        THEN /\ tokenData.expires_at = expiry
             /\ tokenData.expires_in = Num(expiry.v - now)
        ELSE /\ tokenData.expires_in = Num(3600)
             /\ tokenData.expires_at = Num(now + 3600)

\* a Callback succeeded at a time other than 0 with a provider that gave no
\* expiry
C22_Witness ==
    /\ CallbackHtmlOk
    /\ resp.credentials.expiry = None
    /\ now > 0

\* C23: the client reports success only after it has observed READY from the
\* Poll Responder for its session, which takes a READY record to have
\* existed under that session id.
C23_CliSuccessAfterReady ==
    cli.result = "success" => cli.session.v \in everReady

\* the token fields a successful Callback answer exposes
TokenFields(response) ==
    IF response.contentType = "text/html"
    THEN DOMAIN response.body.tokenData
    ELSE DOMAIN response.body \ {"message"}

\* C24: the mode of Callback is a choice of the deployment: a Callback
\* request that differs from a successful one only in its headers (e.g.
\* Accept) and succeeds too takes the same mode and exposes the same token
\* fields.
C24_ModeNotByHeaders ==
    (resp.op = "callback" /\ resp.response.statusCode = 200) =>
        \A headers \in CallbackHeaders :
            LET other == auth_callback_handler([resp.event EXCEPT !.headers = headers],
                                               TRUE, resp.credentials, now)
            IN
            other.statusCode = 200 =>
                /\ other.contentType = resp.response.contentType
                /\ TokenFields(other) = TokenFields(resp.response)

\* the fields of a response's payload: the JSON body, or the token data the
\* HTML page carries
PayloadOf(response) ==
    IF response.contentType = "text/html" THEN response.body.tokenData ELSE response.body

SecretKeys == {"client_secret", "token_uri", "token_url"}

SecretValues == {Str(ClientSecret), Str(TokenUrl)}

\* C25: no response of Callback, Poll or Refresh, whatever its outcome, has
\* the OAuth client secret or the provider's token endpoint URL as a field of
\* its payload.
C25_NoSecretInPayload ==
    resp.op \in {"callback", "poll", "refresh"} =>
        LET payload == PayloadOf(resp.response) IN
        \A k \in DOMAIN payload : k \notin SecretKeys /\ payload[k] \notin SecretValues

\* a Poll has answered 200 from an item that holds the client secret
C25_Witness ==
    /\ resp.op = "poll"
    /\ resp.response.statusCode = 200
    /\ \E s \in DOMAIN table : "client_secret" \in DOMAIN table[s]

\* C26: the HTML confirmation of a successful Callback has status 200 and
\* Content-Type text/html and contains the session id, the `state` value the
\* Callback was invoked with (the page's only request-dependent content
\* being its token data and the refresh-token warning).
C26_HtmlContainsState ==
    (CallbackHtmlOk /\ StateOf(resp.event) # {}) =>
        \A state \in StateOf(resp.event) :
            \E k \in DOMAIN resp.response.body.tokenData :
                resp.response.body.tokenData[k] = Str(state)

\* C27: in every successful Initiate one freshly generated value is the
\* session_id returned to the caller, the `state` bound into the
\* authorization URL, and the key of the PENDING placeholder written to the
\* store.
C27_OneValueThreeRoles ==
    InitiateOk =>
        LET body == resp.response.body
            session_id == body.session_id
        IN
        /\ session_id.v \in issued
        /\ body.authorization_url.state = session_id.v
        /\ session_id.v \in DOMAIN table
        /\ table[session_id.v].session_id = session_id
        /\ Get(table[session_id.v], "status") = Str("pending")

\* C28: the redirect_uri Callback uses for the token exchange is the one
\* Initiate sent to the provider and returned for a request with the same
\* host; it depends on the host only.
C28_SameRedirectUri ==
    InitiateOk =>
        LET body == resp.response.body
            host == HostOf(EventGet(resp.event, "headers").v)
        IN
        /\ body.authorization_url.redirect_uri = body.redirect_uri
        /\ \A event \in CallbackProbeEvents :
              LET headers == EventGet(event, "headers") IN
              (headers.t = "dict" /\ HostOf(headers.v) = host)
                  => CallbackRedirectUri(HostOf(headers.v).v) = body.redirect_uri

\* an Initiate that read its host from the lower-case header succeeded, and
\* some Callback request names the same host
C28_Witness ==
    /\ InitiateOk
    /\ "host" \in DOMAIN resp.event.headers.v
    /\ \E event \in CallbackProbeEvents :
          HostOf(event.headers.v) = HostOf(resp.event.headers.v)

\* C29: in every reachable state of the store, a record with status pending
\* has none of access_token, refresh_token and scope populated.
C29_PendingHasNoTokens ==
    \A s \in DOMAIN table :
        Get(table[s], "status") = Str("pending") =>
            \A k \in {"access_token", "refresh_token", "scope"} : ~Truthy(Get(table[s], k))

\* the store holds a pending record
C29_Witness ==
    \E s \in DOMAIN table : Get(table[s], "status") = Str("pending")

\* C30: in every reachable state of the store, a record whose status is not
\* pending has a non-empty access_token.
C30_ReadyHasAccessToken ==
    \A s \in DOMAIN table :
        Get(table[s], "status") # Str("pending") => Truthy(Get(table[s], "access_token"))

\* the store holds a record that is not pending next to one an Initiate wrote
C30_Witness ==
    \E s1, s2 \in DOMAIN table :
        /\ Get(table[s1], "status") # Str("pending")
        /\ Get(table[s2], "status") = Str("pending")

\* the last step was a save_oauth_tokens that went through
Saved == resp.op = "save" /\ resp.ok

\* C31: one record per session id, and every write is a full overwrite:
\* after a save under S the record under S holds only what derives from the
\* tokens of that save; no field of the record it replaced survives.
C31_FullOverwrite ==
    Saved =>
        LET tokens == resp.write.tokens
            item == table[resp.session_id]
        IN
        /\ resp.session_id \in DOMAIN table
        /\ item.session_id = Str(resp.session_id)
        /\ item.token_type = GetOr(tokens, "token_type", Str("Bearer"))
        /\ item.status = GetOr(tokens, "status", Str("completed"))
        /\ \A k \in {"access_token", "refresh_token", "expires_at", "scope"} :
              Get(item, k) = Get(tokens, k)

\* a save without refresh token has replaced a record that had one
C31_Witness ==
    /\ Saved
    /\ "refresh_token" \in resp.replaced
    /\ "refresh_token" \notin DOMAIN resp.write.tokens

\* C32: no record of the session store holds a field with a null value; a
\* field the writer has no value for is left out of the item.
C32_NoNullFields ==
    \A s \in DOMAIN table : \A k \in DOMAIN table[s] : table[s][k] # None

\* a save whose tokens carry a null refresh_token went through
C32_Witness ==
    /\ Saved
    /\ "refresh_token" \in DOMAIN resp.write.tokens
    /\ resp.write.tokens["refresh_token"] = None

\* C33: the expires_in Poll returns for a READY session is the lifetime of
\* the access token the provider reported, the expires_in of the tokens
\* handed to save_oauth_tokens, not the TTL window of the record.
C33_PollExpiresInIsProviders ==
    (/\ Saved
     /\ "expires_in" \in DOMAIN resp.write.tokens
     /\ PollNow(resp.session_id).statusCode = 200)
        => PollNow(resp.session_id).body.expires_in = resp.write.tokens["expires_in"]

\* C34: the TTL window (ttl minus created_at) of the PENDING placeholder
\* Initiate writes is short, under one hour, and strictly shorter than the
\* window given to a completed record.
C34_PendingWindowShort ==
    \A s \in DOMAIN table :
        Get(table[s], "status") = Str("pending") =>
            LET window == table[s].ttl.v - table[s].created_at.v IN
            /\ window < 3600
            /\ window < DefaultExpiresIn

\* C35: whatever the order in which invocations reach the store, a write or a
\* delete under one session id leaves the record and the Poll answer of every
\* other id as they were; a write under an id leaves there the complete item
\* of that write (the last write wins, no field of the earlier item is mixed
\* in), which is what a later Poll reads; and a Poll changes nothing.
C35_IndependentLastWriteWins ==
    [][/\ resp'.op \in {"save", "delete"} =>
            \A s \in SessionIds \ {resp'.session_id} :
                /\ s \in DOMAIN table' <=> s \in DOMAIN table
                /\ s \in DOMAIN table => table'[s] = table[s]
                /\ auth_poll_handler(PollEvent(s), table', TRUE)
                       = auth_poll_handler(PollEvent(s), table, TRUE)
       /\ (resp'.op = "save" /\ resp'.ok) =>
            /\ resp'.session_id \in DOMAIN table'
            /\ table'[resp'.session_id]
                   = SaveItem(resp'.session_id, resp'.write.tokens,
                              resp'.write.expires_in, now)
            /\ auth_poll_handler(PollEvent(resp'.session_id), table', TRUE)
                   = auth_poll_handler(PollEvent(resp'.session_id),
                        (resp'.session_id :>
                            SaveItem(resp'.session_id, resp'.write.tokens,
                                     resp'.write.expires_in, now)), TRUE)
       /\ resp'.op = "poll" => table' = table]_vars

\* a write over an earlier record of the same id while another id holds a
\* record too
C35_Witness ==
    /\ Saved
    /\ resp.replaced # {}
    /\ \E s \in DOMAIN table : s # resp.session_id

\* C36: every record in the store carries a ttl, equal to the time it was
\* written at plus the expires_in window of the write; and a session no
\* Callback arrives for, once its ttl has passed and the store applies
\* expiry, is no longer there: Poll answers 404 (not 202) from then on.
C36_PendingExpires ==
    /\ [](\A s \in DOMAIN table :
            /\ "ttl" \in DOMAIN table[s]
            /\ table[s].ttl.v = table[s].created_at.v + table[s].expires_in.v
            /\ table[s].created_at.v <= now)
    /\ \A s \in Uuids :
          (s \in DOMAIN table /\ Get(table[s], "ttl") # None /\ table[s].ttl.v < now)
              ~> [](PollNow(s) = NotFound)

\* the store has just discarded the placeholder of a session whose ttl had
\* passed, and Poll answers 404 for it
C36_Witness ==
    /\ resp.op = "expire"
    /\ resp.session_id \in DOMAIN returned
    /\ returned[resp.session_id] + PlaceholderExpiresIn < now
    /\ PollNow(resp.session_id) = NotFound

\* C37: an Initiate that answers 500 (no Host header, or a failure building
\* the authorization URL) leaves the store as it was, and after any Initiate
\* every record of the store is under a session id that was returned to a
\* caller: there is no orphan placeholder.
C37_FailedInitiateWritesNothing ==
    [][resp'.op = "initiate" =>
          /\ resp'.response.statusCode = 500 => table' = table
          /\ DOMAIN table' \subseteq DOMAIN returned']_vars

\* the authorization URL could not be built for a session id that had been
\* generated, while the store holds the placeholder of an earlier session
C37_Witness ==
    /\ resp.op = "initiate"
    /\ resp.response.statusCode = 500
    /\ issued \ DOMAIN returned # {}
    /\ table # EmptyDict

\* the last step was a Callback turned down by the handler's validation: 400,
\* or 500 for want of a Host header
CallbackRejected ==
    /\ resp.op = "callback"
    /\ \/ resp.response.statusCode = 400
       \/ resp.response = create_error_response(500, "Unable to determine API Gateway host")

\* C38: a Callback rejected during validation (400 for missing parameters, a
\* provider error or a missing code; 500 for a missing Host header) exchanges
\* no code for tokens and writes nothing to the store: every record, and what
\* Poll answers to any request, is as it was before the callback.
C38_RejectedCallbackChangesNothing ==
    [][CallbackRejected' =>
          /\ resp'.credentials = NoCredentials
          /\ table' = table
          /\ \A event \in PollEvents :
                auth_poll_handler(event, table', TRUE)
                    = auth_poll_handler(event, table, TRUE)]_vars

\* a rejected Callback naming a session whose placeholder is in the store
C38_Witness ==
    /\ CallbackRejected
    /\ \E s \in StateOf(resp.event) :
          /\ s \in DOMAIN table
          /\ PollNow(s).statusCode = 202

====
